---- MODULE Spec2Model ----
(***************************************************************************)
(* EasyCSS Enhanced (src/Easy.js): the document-scoped event bus           *)
(* (on / off / emit over document.addEventListener, removeEventListener    *)
(* and dispatchEvent), the activation pass (init / initializeComponents    *)
(* and the widget initializers), and the widgets' own state: toasts and    *)
(* their timers, the stored theme, the resize debounce, tabs, dropdowns    *)
(* and modals.                                                             *)
(*                                                                         *)
(* JavaScript runs to completion: a listener, and everything it calls,     *)
(* finishes before the next event is taken.  The model keeps that by       *)
(* letting no page or user action fire while a dispatch is in progress or  *)
(* while calls are still pending.                                          *)
(***************************************************************************)
EXTENDS Integers, Sequences, FiniteSets, TLC

\* ------------------------------------------------------------------ bounds

\* emit() calls made by page code in one behaviour
MaxEmits == 2

\* The value Date.now() returns for the first emit; it advances by one per emit.
ClockStart == 1000

\* new EasyCSSEnhanced() calls in one behaviour: the script's own (line 1050) and
\* those page code makes through window.EasyCSSEnhanced
MaxInstances == 2

\* clicks and API calls by the user or page code in one behaviour
MaxActions == 1

\* elements of the document that are not well-formed widget markup
MaxFaults == 1

\* showToast() calls in one behaviour
MaxToasts == 2

\* showToast() calls and clicks on toast close buttons in one behaviour
MaxToastOps == 2

\* The time, in ms, up to which the user and the page act at moments of their
\* choosing; after it time only moves to the next timer that is due.
MaxClock == 200

\* The grain, in ms, of the moments the user and the page choose.
TimeStep == 100

\* window resize events and calls of the debounced function in one behaviour
MaxCalls == 4

\* clicks on tab triggers and switchTab() calls in one behaviour
MaxTabOps == 3

\* clicks on dropdown triggers, in dropdown menus and elsewhere in one behaviour
MaxDropOps == 3

\* openModal() and closeModal() calls, by click, key or page code, in one behaviour
MaxModalOps == 4

\* setTheme() and toggleTheme() calls page code makes on one page
MaxThemeCalls == 2

\* times the user loads another page of the site, over the same localStorage
MaxLoads == 1

\* The most enabled items a dropdown has, and the most keys pressed in it.
MaxItems == 3

MaxKeyPresses == 3

\* The most clicks on accordion triggers, and system colour-scheme changes.
MaxToggles == 4

MaxSchemeChanges == 2

\* ------------------------------------------------------------------ names

XChanged == "x:changed"
ReadyEvent == "easycss:ready"
ThemeChanged == "easycss:theme-changed"

\* Event names page code subscribes to.
Names == {XChanged, ReadyEvent}

\* The callbacks page code passes to on/off, per event name.
HandlersOf(n) == IF n = XChanged THEN {"A", "B", "C"} ELSE {"R"}

Handlers == UNION {HandlersOf(n) : n \in Names}

\* Payloads page code passes to emit(): the default {}, {v: 1}, and payloads
\* that carry a key named timestamp themselves.
NoData == [k \in {} |-> 0]

Payloads ==
    { NoData,
      [v |-> 1],
      [timestamp |-> 2],
      [v |-> 1, timestamp |-> 2] }

\* What one invocation of a subscribed callback does before it returns: nothing,
\* throw, call on() or off() for a callback of the same event, or call
\* stopImmediatePropagation() on the CustomEvent it was handed.
Behaviours(n) ==
    {[op |-> o, arg |-> "-"] : o \in {"return", "throw", "stop"}}
        \cup {[op |-> o, arg |-> h] : o \in {"on", "off"}, h \in HandlersOf(n)}

\* ------------------------------------------------------------------ state

VARIABLES
    listeners,   \* document's listener list per event name, in order of registration
    dispatch,    \* the CustomEvent being (or last) dispatched, with its progress
    emitCount,   \* emit() calls so far
    cancelled,   \* per name: callbacks whose most recent on/off call was off
    pending,     \* calls still to run, in order, once the current dispatch returns
    readyState,  \* document.readyState
    env,         \* what the browser provides: window.matchMedia, IntersectionObserver
    shape,       \* the markup of each widget element of the document
    inst,        \* per framework instance: where its construction and init pass are
    theme,       \* per framework instance: this.theme
    docTheme,    \* data-theme of document.documentElement
    storage,     \* localStorage['easycss-theme']
    bindings,    \* per element: the instances whose initializer attached listeners
    touched,     \* elements an initializer wrote attributes, classes or children to
    stepsDone,   \* per instance: the init steps of its pass that returned
    emitted,     \* per instance: the names of the events it emitted, in order
    actions,     \* clicks and API calls so far
    clickRuns,   \* toggleTheme() calls made for the last click on the theme toggle
    clock,       \* the time in ms since the page was loaded
    timers,      \* the timers set by setTimeout and neither fired nor cleared
    nextTimer,   \* the handle the next setTimeout returns
    container,   \* whether the document has a [data-toast-container] element
    toasts,      \* per toast showToast created: its element, config and events
    toastOps,    \* showToast() calls and clicks on toast close buttons so far
    stale,       \* toasts on which a timer callback ran after they were removed
    lastSet,     \* the theme of the most recent setTheme() call, on any page
    callsHere,   \* setTheme() and toggleTheme() calls page code made on this page
    loads,       \* page loads after the first
    debounced,   \* per debounced function: its timer handle and what it has done
    calls,       \* window resize events and calls of debounced functions so far
    tabs,        \* the tab group: classes and ARIA attributes of triggers and panels
    tabOps,      \* tab clicks and switchTab() calls so far
    dropActive,  \* the [data-dropdown] elements that have the active class
    dropEvents,  \* the dropdown events emitted, in order
    dropOps,     \* clicks on dropdown triggers and elsewhere: how many, and the last
    modalActive, \* the [data-modal] elements that have the active class
    overflow,    \* document.body.style.overflow
    traps,       \* per modal: the keydown focus-trap listeners attached to it
    closedSubs,  \* the listeners trapFocus subscribed to easycss:modal-closed
    modalOps,    \* openModal() and closeModal() calls so far
    keys,        \* one dropdown's enabled items, the focus, and the last key pressed
    accordion,   \* the accordion: classes and ARIA attributes of its items
    scheme       \* the system colour scheme, and the change events so far

busVars == <<listeners, dispatch, emitCount, cancelled>>

\* The bus, the pending calls and the activation pass.
coreVars == <<listeners, dispatch, emitCount, cancelled, pending, readyState, env,
              shape, inst, theme, docTheme, storage, bindings, touched, stepsDone,
              emitted, actions, clickRuns>>

timeVars == <<clock, timers, nextTimer>>

toastVars == <<container, toasts, toastOps, stale>>

prefVars == <<lastSet, callsHere, loads>>

debVars == <<debounced, calls>>

tabVars == <<tabs, tabOps>>

dropVars == <<dropActive, dropEvents, dropOps>>

modalVars == <<modalActive, overflow, traps, closedSubs, modalOps>>

keyVars == <<keys>>

accVars == <<accordion>>

schemeVars == <<scheme>>

\* The state of the widgets after activation.
uiVars == <<timeVars, toastVars, prefVars, debVars, tabVars, dropVars, modalVars,
            keyVars, accVars, schemeVars>>

domVars == <<readyState, env, shape, inst, theme, docTheme, storage, bindings,
             touched, stepsDone, emitted, actions, clickRuns, uiVars>>

vars == <<listeners, dispatch, emitCount, cancelled, pending, readyState, env, shape,
          inst, theme, docTheme, storage, bindings, touched, stepsDone, emitted,
          actions, clickRuns, clock, timers, nextTimer, container, toasts, toastOps,
          stale, lastSet, callsHere, loads, debounced, calls, tabs, tabOps,
          dropActive, dropEvents, dropOps, modalActive, overflow, traps, closedSubs,
          modalOps, keys, accordion, scheme>>

Range(s) == {s[i] : i \in 1..Len(s)}

Pos(s, x) == CHOOSE i \in 1..Len(s) : s[i] = x /\ \A j \in 1..(i - 1) : s[j] # x

\* ------------------------------------------------------------------ on / off

\* A bus that keeps an array and pushes: the same callback may be listed twice.
onPush(ls, callback) == Append(ls, callback)

\* on(event, callback): document.addEventListener(event, callback).  The DOM
\* adds the listener unless the list holds one with the same type and callback.
on(ls, callback) ==
    IF callback \in Range(ls) THEN ls ELSE Append(ls, callback)

\* off(event, callback): document.removeEventListener(event, callback).  The DOM
\* removes the listener with that type and callback, if there is one.
off(ls, callback) ==
    IF callback \notin Range(ls)
    THEN ls
    ELSE LET i == Pos(ls, callback)
         IN  SubSeq(ls, 1, i - 1) \o SubSeq(ls, i + 1, Len(ls))

\* ------------------------------------------------------------------ emit

\* Date.now()
Now == ClockStart + emitCount

\* A merge in which the payload's own keys win over the generated timestamp.
DetailPayloadWins(data, ts) ==
    [k \in DOMAIN data \cup {"timestamp"} |->
        IF k \in DOMAIN data THEN data[k] ELSE ts]

\* { ...data, timestamp: Date.now() }: the keys of data, then timestamp, which
\* replaces a timestamp key of data.
Detail(data, ts) ==
    [k \in DOMAIN data \cup {"timestamp"} |->
        IF k = "timestamp" THEN ts ELSE data[k]]

NoDispatch ==
    [active |-> FALSE, name |-> "", payload |-> NoData, detail |-> NoData,
     ts |-> 0, atStart |-> <<>>, idx |-> 0, removed |-> {}, stopped |-> FALSE,
     added |-> {}, invoked |-> <<>>, threw |-> {}, raised |-> FALSE]

\* The listeners of an event name; a name nobody subscribed to has none.
ListenersOf(ls, event) == IF event \in DOMAIN ls THEN ls[event] ELSE <<>>

\* A dispatch that walks the live listener list instead of a copy.
IterListLive(d, ls) == ListenersOf(ls, d.name)

\* dispatchEvent walks a copy of the listener list taken when the dispatch starts.
IterList(d, ls) == d.atStart

\* A loop without a try/catch around the callback: the exception leaves emit.
Rethrow(d, h) == [d EXCEPT !.threw = @ \cup {h}, !.raised = TRUE]

\* dispatchEvent reports an exception thrown by a callback and goes on.
Report(d, h) == [d EXCEPT !.threw = @ \cup {h}]

\* The next listener of the walked list, after position i, whose removed flag is
\* not set; 0 when there is none, the dispatch was stopped or left by an exception.
NextIdx(d, list, i) ==
    LET later == {j \in (i + 1)..Len(list) : list[j] \notin d.removed}
    IN  IF d.stopped \/ d.raised \/ later = {}
        THEN 0
        ELSE CHOOSE j \in later : \A k \in later : j <= k

Advance(d, list) ==
    LET j == NextIdx(d, list, d.idx)
    IN  [d EXCEPT !.idx = j, !.active = (j # 0)]

\* emit(event, data): build the CustomEvent and hand it to document.dispatchEvent.
emit(ls, event, data, ts) ==
    LET d0 == [NoDispatch EXCEPT !.name = event, !.payload = data,
                                 !.detail = Detail(data, ts), !.ts = ts,
                                 !.atStart = ListenersOf(ls, event)]
    IN  Advance(d0, IterList(d0, ls))

\* ------------------------------------------------------------------ bus actions

Idle == ~dispatch.active

\* Nothing is running: the page, the user and the browser may act.
Quiet == Idle /\ pending = <<>>

\* A bus that keeps the last event of each name and hands it to a late subscriber.
OnReplay(n, h) ==
    /\ Quiet
    /\ listeners' = [listeners EXCEPT ![n] = on(@, h)]
    /\ cancelled' = [cancelled EXCEPT ![n] = @ \ {h}]
    /\ dispatch' = IF dispatch.name = n /\ h \notin Range(dispatch.invoked)
                   THEN [dispatch EXCEPT !.invoked = Append(@, h)]
                   ELSE dispatch
    /\ UNCHANGED <<emitCount, pending, domVars>>

\* Page code: framework.on(n, h)
On(n, h) ==
    /\ Quiet
    /\ listeners' = [listeners EXCEPT ![n] = on(@, h)]
    /\ cancelled' = [cancelled EXCEPT ![n] = @ \ {h}]
    /\ UNCHANGED <<dispatch, emitCount, pending, domVars>>

\* Page code: framework.off(n, h)
Off(n, h) ==
    /\ Quiet
    /\ listeners' = [listeners EXCEPT ![n] = off(@, h)]
    /\ cancelled' = [cancelled EXCEPT ![n] = @ \cup {h}]
    /\ UNCHANGED <<dispatch, emitCount, pending, domVars>>

\* Page code: framework.emit(n, data)
Emit(n, data) ==
    /\ Quiet
    /\ emitCount < MaxEmits
    /\ dispatch' = emit(listeners, n, data, Now)
    /\ emitCount' = emitCount + 1
    /\ UNCHANGED <<listeners, cancelled, pending, domVars>>

\* dispatchEvent invokes the next callback of the walked list; the callback does
\* b and returns or throws.
Invoke(b) ==
    /\ dispatch.active
    /\ LET n == dispatch.name
           list == IterList(dispatch, listeners)
           h == list[dispatch.idx]
           d1 == [dispatch EXCEPT !.invoked = Append(@, h)]
           d2 == CASE b.op = "throw" -> Report(d1, h)
                   [] b.op = "stop" -> [d1 EXCEPT !.stopped = TRUE]
                   [] b.op = "off" ->
                        IF b.arg \in Range(listeners[n])
                        THEN [d1 EXCEPT !.removed = @ \cup {b.arg}]
                        ELSE d1
                   [] b.op = "on" ->
                        IF b.arg \notin Range(listeners[n])
                        THEN [d1 EXCEPT !.added = @ \cup {b.arg}]
                        ELSE d1
                   [] OTHER -> d1
           ls2 == CASE b.op = "on" -> [listeners EXCEPT ![n] = on(@, b.arg)]
                    [] b.op = "off" -> [listeners EXCEPT ![n] = off(@, b.arg)]
                    [] OTHER -> listeners
       IN  /\ b \in Behaviours(n)
           /\ listeners' = ls2
           /\ dispatch' = Advance(d2, IterList(d2, ls2))
           /\ cancelled' = CASE b.op = "on" -> [cancelled EXCEPT ![n] = @ \ {b.arg}]
                             [] b.op = "off" -> [cancelled EXCEPT ![n] = @ \cup {b.arg}]
                             [] OTHER -> cancelled
    /\ UNCHANGED <<emitCount, pending, domVars>>

\* ------------------------------------------------------------------ the document

Instances == 1..MaxInstances

\* The widget elements of the document, per selector, in document order.
Toggles == <<"t1">>                  \* [data-theme-toggle]
Dropdowns == <<"d1", "d2">>          \* [data-dropdown]
AccordionItems == <<"a1", "a2">>     \* [data-accordion] .accordion-item
Tooltips == <<"p1", "p2">>           \* [data-tooltip]
Animated == <<"n1">>                 \* [class*="animate-"]

Elems ==
    Range(Toggles) \cup Range(Dropdowns) \cup Range(AccordionItems)
        \cup Range(Tooltips) \cup Range(Animated)

\* The markup an element can have.  ok: the widget's root with the children its
\* initializer looks for.  noTrigger: no [data-dropdown-trigger] /
\* [data-accordion-trigger] child.  noBody: no .dropdown-menu / .accordion-content
\* child.  throws: an element for which the first DOM call of the initializer's
\* callback raises an exception.
ShapesOf(e) ==
    IF e \in Range(Dropdowns) THEN {"ok", "noTrigger", "noBody", "throws"}
    ELSE IF e \in Range(AccordionItems) THEN {"ok", "noTrigger", "noBody"}
    ELSE IF e \in Range(Tooltips) THEN {"ok", "throws"}
    ELSE {"ok"}

Shapes == UNION {ShapesOf(e) : e \in Elems}

\* window.matchMedia: not there, there with a MediaQueryList that has addListener
\* only (no addEventListener), or there with addEventListener.
MatchMedia == {"absent", "legacy", "modern"}

NoTheme == "none"

Themes == {"light", "dark"}

\* The init steps of initializeComponents, in the order it calls them.
StepNames ==
    << "initTheme", "initModals", "initDropdowns", "initTabs", "initAccordions",
       "initTooltips", "initToasts", "initNavbarToggle", "initSmoothScroll",
       "initAnimationTriggers", "initLoadingStates", "initAlertClose",
       "initLanguageToggle", "initAccessibility", "initPerformanceOptimizations" >>

\* ------------------------------------------------------------------ initializers

\* What an initializer has done to the document so far.
Outcome(p, t) == [p |-> p, threw |-> t]

Listen(p, e, i) == [p EXCEPT !.bindings[e] = Append(@, i)]

Touch(p, e) == [p EXCEPT !.touched = @ \cup {e}]

\* A guard that looks for the trigger only.
TriggerMissing(e) == shape[e] = "noTrigger"

\* if (!trigger || !menu) return;   if (!trigger || !content) return;
RequiredMissing(e) == shape[e] \in {"noTrigger", "noBody"}

\* The callback initTheme runs for a [data-theme-toggle] element.
BindToggle(p, e, i) == Outcome(Listen(p, e, i), FALSE)

\* The callback initDropdowns runs for a [data-dropdown] element: the guard, the
\* three addEventListener calls, then positionDropdown(dropdown, menu), which
\* resets the menu's classes.  A null trigger or menu that gets past the guard
\* raises a TypeError where it is first used.
BindDropdown(p, e, i) ==
    IF shape[e] = "throws" THEN Outcome(p, TRUE)
    ELSE IF RequiredMissing(e) THEN Outcome(p, FALSE)
    ELSE IF shape[e] = "noTrigger" THEN Outcome(p, TRUE)
    ELSE IF shape[e] = "noBody" THEN Outcome(Listen(p, e, i), TRUE)
    ELSE Outcome(Touch(Listen(p, e, i), e), FALSE)

\* The callback initAccordions runs for an .accordion-item: the guard, then
\* content.id, the trigger's aria-controls and aria-expanded, and the trigger's
\* two listeners.
BindAccordionItem(p, e, i) ==
    IF RequiredMissing(e) THEN Outcome(p, FALSE)
    ELSE IF shape[e] = "noBody" THEN Outcome(p, TRUE)
    ELSE IF shape[e] = "noTrigger" THEN Outcome(Touch(p, e), TRUE)
    ELSE Outcome(Listen(Touch(p, e), e, i), FALSE)

\* The callback initTooltips runs for a [data-tooltip] element: the
\* .tooltip-content child is created if there is none, then two listeners.
BindTooltip(p, e, i) ==
    IF shape[e] = "throws" THEN Outcome(p, TRUE)
    ELSE Outcome(Listen(Touch(p, e), e, i), FALSE)

\* The callback initAnimationTriggers runs for an animated element:
\* window.matchMedia('(prefers-reduced-motion: reduce)') is called without a
\* check that matchMedia exists; the preference is taken as not set, so the
\* animation is paused and the element observed.
BindAnimated(p, e, i) ==
    IF env.matchMedia = "absent" THEN Outcome(p, TRUE)
    ELSE Outcome(Listen(Touch(p, e), e, i), FALSE)

Bind(sel, p, e, i) ==
    CASE sel = "toggle" -> BindToggle(p, e, i)
      [] sel = "dropdown" -> BindDropdown(p, e, i)
      [] sel = "accordion" -> BindAccordionItem(p, e, i)
      [] sel = "tooltip" -> BindTooltip(p, e, i)
      [] sel = "animated" -> BindAnimated(p, e, i)

\* elements.forEach(callback) from element k on: an exception thrown by the
\* callback ends the loop and leaves forEach.
RECURSIVE ForEach(_, _, _, _, _)
ForEach(sel, elems, k, p, i) ==
    IF k > Len(elems)
    THEN Outcome(p, FALSE)
    ELSE LET r == Bind(sel, p, elems[k], i)
         IN  IF r.threw THEN r ELSE ForEach(sel, elems, k + 1, r.p, i)

\* initTheme: data-theme is set from this.theme, every toggle gets its click
\* listener, and, if window.matchMedia is there, the media query gets a change
\* listener through mediaQuery.addEventListener.
initTheme(p, i) ==
    LET r == ForEach("toggle", Toggles, 1, [p EXCEPT !.docTheme = theme[i]], i)
    IN  IF env.matchMedia = "legacy" THEN Outcome(r.p, TRUE) ELSE r

initDropdowns(p, i) == ForEach("dropdown", Dropdowns, 1, p, i)

initAccordions(p, i) == ForEach("accordion", AccordionItems, 1, p, i)

initTooltips(p, i) == ForEach("tooltip", Tooltips, 1, p, i)

\* initAnimationTriggers returns at once without IntersectionObserver.
initAnimationTriggers(p, i) ==
    IF ~env.io THEN Outcome(p, FALSE) ELSE ForEach("animated", Animated, 1, p, i)

\* One init step.  The steps not listed attach listeners to elements this
\* document does not have, or to document and window.
Step(name, p, i) ==
    CASE name = "initTheme" -> initTheme(p, i)
      [] name = "initDropdowns" -> initDropdowns(p, i)
      [] name = "initAccordions" -> initAccordions(p, i)
      [] name = "initTooltips" -> initTooltips(p, i)
      [] name = "initAnimationTriggers" -> initAnimationTriggers(p, i)
      [] OTHER -> Outcome(p, FALSE)

\* The body of initializeComponents before the emit: the steps in order, from
\* step k on.  No step is called in a try block: the first exception ends the pass.
RECURSIVE RunSteps(_, _, _, _)
RunSteps(k, p, i, done) ==
    IF k > Len(StepNames)
    THEN [p |-> p, done |-> done, threw |-> FALSE]
    ELSE LET r == Step(StepNames[k], p, i)
         IN  IF r.threw
             THEN [p |-> r.p, done |-> done, threw |-> TRUE]
             ELSE RunSteps(k + 1, r.p, i, Append(done, StepNames[k]))

\* ------------------------------------------------------------------ framework actions

Call(op, i) == [op |-> op, inst |-> i]

\* Framework code calls this.emit(event, data).
FrameworkEmit(event, data, i) ==
    /\ dispatch' = emit(listeners, event, data, Now)
    /\ emitCount' = emitCount + 1
    /\ emitted' = [emitted EXCEPT ![i] = Append(@, event)]

\* localStorage.getItem('easycss-theme') || 'light': nothing stored (null) and
\* the empty string are falsy and give 'light'.
StoredTheme(stored) == IF stored \in {NoTheme, ""} THEN "light" ELSE stored

\* new EasyCSSEnhanced(): the constructor reads the stored theme and calls init(),
\* which defers initializeComponents to DOMContentLoaded while the document is
\* loading and calls it at once otherwise.
Construct(i) ==
    /\ Quiet
    /\ inst[i] = "none"
    /\ \A j \in 1..(i - 1) : inst[j] # "none"
    /\ theme' = [theme EXCEPT ![i] = StoredTheme(storage)]
    /\ IF readyState = "loading"
       THEN /\ inst' = [inst EXCEPT ![i] = "deferred"]
            /\ UNCHANGED pending
       ELSE /\ inst' = [inst EXCEPT ![i] = "constructing"]
            /\ pending' = <<Call("initializeComponents", i)>>
    /\ UNCHANGED <<busVars, readyState, env, shape, docTheme, storage, bindings,
                   touched, stepsDone, emitted, actions, clickRuns, uiVars>>

\* The document fires DOMContentLoaded: the listeners the deferred instances
\* added run in the order they were added.
DOMContentLoaded ==
    /\ Quiet
    /\ readyState = "loading"
    /\ readyState' = "interactive"
    /\ pending' = LET all == [i \in Instances |-> Call("initializeComponents", i)]
                  IN  SelectSeq(all, LAMBDA c : inst[c.inst] = "deferred")
    /\ UNCHANGED <<busVars, env, shape, inst, theme, docTheme, storage, bindings,
                   touched, stepsDone, emitted, actions, clickRuns, uiVars>>

\* initializeComponents(): the fifteen init steps, then emit('easycss:ready').
InitializeComponents(i) ==
    LET r == RunSteps(1, [bindings |-> bindings, touched |-> touched,
                          docTheme |-> docTheme], i, <<>>)
    IN  /\ bindings' = r.p.bindings
        /\ touched' = r.p.touched
        /\ docTheme' = r.p.docTheme
        /\ stepsDone' = [stepsDone EXCEPT ![i] = r.done]
        /\ IF r.threw
           THEN /\ inst' = [inst EXCEPT ![i] = "aborted"]
                /\ UNCHANGED <<dispatch, emitCount, emitted>>
           ELSE /\ inst' = [inst EXCEPT ![i] = "ready"]
                /\ FrameworkEmit(ReadyEvent, [framework |-> i], i)
        /\ UNCHANGED <<listeners, cancelled, readyState, env, shape, theme, storage,
                       actions, clickRuns, uiVars>>

\* A setTheme that does not write the preference to localStorage.
SetThemeNoStore(i, t) ==
    /\ theme' = [theme EXCEPT ![i] = t]
    /\ docTheme' = t
    /\ storage' = storage
    /\ FrameworkEmit(ThemeChanged, [theme |-> t], i)

\* setTheme(t)
SetTheme(i, t) ==
    /\ theme' = [theme EXCEPT ![i] = t]
    /\ docTheme' = t
    /\ storage' = t
    /\ FrameworkEmit(ThemeChanged, [theme |-> t], i)

\* const newTheme = this.theme === 'dark' ? 'light' : 'dark'
Toggled(t) == IF t = "dark" THEN "light" ELSE "dark"

\* toggleTheme(), as the click listener of a theme toggle calls it
ToggleTheme(i) ==
    /\ SetTheme(i, Toggled(theme[i]))
    /\ clickRuns' = clickRuns + 1
    /\ UNCHANGED <<listeners, cancelled, readyState, env, shape, inst, bindings,
                   touched, stepsDone, actions, uiVars>>

\* The next pending call runs once the dispatch before it has returned.
RunCall ==
    /\ Idle
    /\ pending # <<>>
    /\ pending' = Tail(pending)
    /\ LET c == Head(pending)
       IN  IF c.op = "initializeComponents"
           THEN InitializeComponents(c.inst)
           ELSE ToggleTheme(c.inst)

\* The user clicks the theme toggle: its click listeners run in the order they
\* were attached.
ClickToggle(e) ==
    /\ Quiet
    /\ actions < MaxActions
    /\ bindings[e] # <<>>
    /\ actions' = actions + 1
    /\ clickRuns' = 0
    /\ pending' = [k \in 1..Len(bindings[e]) |-> Call("toggleTheme", bindings[e][k])]
    /\ UNCHANGED <<busVars, readyState, env, shape, inst, theme, docTheme, storage,
                   bindings, touched, stepsDone, emitted, uiVars>>

\* Page code calls setTheme(t) on an instance it holds.
ApiSetTheme(i, t) ==
    /\ Quiet
    /\ actions < MaxActions
    /\ inst[i] \in {"deferred", "ready"}
    /\ actions' = actions + 1
    /\ SetTheme(i, t)
    /\ UNCHANGED <<listeners, cancelled, pending, readyState, env, shape, inst,
                   bindings, touched, stepsDone, clickRuns, uiVars>>

\* ------------------------------------------------------------------ timers

\* The delay setTimeout works with: a negative delay counts as 0.
Clamp(delay) == IF delay < 0 THEN 0 ELSE delay

\* setTimeout(callback, delay) at time now: the timers with one more, whose
\* handle is id and whose callback is op(arg).
setTimeout(tms, id, now, op, arg, delay) ==
    tms \cup {[id |-> id, due |-> now + Clamp(delay), op |-> op, arg |-> arg]}

\* clearTimeout(id): the timers without the one whose handle is id, if any.
clearTimeout(tms, id) == {t \in tms : t.id # id}

\* The timer the event loop runs next: one whose time has come, the earliest
\* due first and, of timers due together, the one that was set first.
IsNextTimer(t) ==
    /\ t \in timers
    /\ t.due <= clock
    /\ \A u \in timers : u.due > t.due \/ (u.due = t.due /\ u.id >= t.id)

\* Time passes by one grain, not past a timer that is due.
Elapse ==
    /\ Quiet
    /\ clock + TimeStep <= MaxClock
    /\ \A t \in timers : t.due >= clock + TimeStep
    /\ clock' = clock + TimeStep
    /\ UNCHANGED <<coreVars, prefVars, debVars, tabVars, dropVars, modalVars,
                   timers, nextTimer, toastVars,
                   keyVars, accVars, schemeVars>>

\* Nothing else happens until the next timer is due.
Sleep ==
    /\ Quiet
    /\ timers # {}
    /\ \A t \in timers : t.due > clock
    /\ clock' = CHOOSE d \in {t.due : t \in timers} : \A t \in timers : d <= t.due
    /\ UNCHANGED <<coreVars, prefVars, debVars, tabVars, dropVars, modalVars,
                   timers, nextTimer, toastVars,
                   keyVars, accVars, schemeVars>>

\* ------------------------------------------------------------------ toasts

\* const { duration = 5000 } = config
DefaultDuration == 5000

\* setTimeout(..., 300) in hideToast
HideDelay == 300

\* The toasts showToast creates, in the order of the calls.
Toasts == 1..MaxToasts

\* Values of config.duration page code passes.
Durations == {-100, 0, 200}

\* The config objects passed to showToast: duration and persistent are each
\* given or left out (type, title and message only fill the toast's markup).
Configs ==
    {NoData, [persistent |-> FALSE], [persistent |-> TRUE]}
        \cup {[duration |-> d] : d \in Durations}
        \cup {[duration |-> d, persistent |-> TRUE] : d \in Durations \ {0}}

\* const { duration = 5000, persistent = false } = config
Duration(config) ==
    IF "duration" \in DOMAIN config THEN config.duration ELSE DefaultDuration

Persistent(config) ==
    IF "persistent" \in DOMAIN config THEN config.persistent ELSE FALSE

\* A showToast that sets the auto-dismiss timer for persistent toasts too.
AutoDismissPersistent(config) == Duration(config) > 0

\* if (!persistent && duration > 0)
AutoDismiss(config) == ~Persistent(config) /\ Duration(config) > 0

\* A toast showToast has not created yet.
NoToast ==
    [state |-> "none", config |-> NoData, at |-> 0, show |-> FALSE,
     closeClicks |-> 0, removals |-> 0, removedAt |-> 0, events |-> <<>>]

\* What showToast and hideToast work on.
ToastWorld == [toasts |-> toasts, timers |-> timers, nextTimer |-> nextTimer]

\* showToast(config) for the k-th toast: the element is appended to the
\* container, the auto-dismiss timer is set unless the toast is persistent or
\* the duration is not positive, and easycss:toast-shown is emitted.  The frame
\* callback that adds the show class runs before the next paint, which is
\* before the user or a timer of TimeStep or more can act: it is taken with the
\* call.
showToast(w, k, config, now) ==
    LET el == [NoToast EXCEPT !.state = "attached", !.config = config, !.at = now,
                              !.show = TRUE, !.events = <<"easycss:toast-shown">>]
    IN  [toasts |-> [w.toasts EXCEPT ![k] = el],
         timers |-> IF AutoDismiss(config)
                    THEN setTimeout(w.timers, w.nextTimer, now, "hideToast", k,
                                    Duration(config))
                    ELSE w.timers,
         nextTimer |-> IF AutoDismiss(config) THEN w.nextTimer + 1 ELSE w.nextTimer]

\* hideToast(toast): the show class goes and a timer is set for the removal.
hideToast(w, k, now) ==
    [toasts |-> [w.toasts EXCEPT ![k].show = FALSE],
     timers |-> setTimeout(w.timers, w.nextTimer, now, "remove", k, HideDelay),
     nextTimer |-> w.nextTimer + 1]

\* A removal callback without the parentNode test.
removeUnchecked(ts, k, now) ==
    [ts EXCEPT ![k].state = "detached", ![k].removals = @ + 1, ![k].removedAt = now,
               ![k].events = Append(@, "easycss:toast-hidden")]

\* The callback of hideToast's timer: if the toast still has a parent it is
\* removed from it and easycss:toast-hidden is emitted.
remove(ts, k, now) ==
    IF ts[k].state = "attached"
    THEN [ts EXCEPT ![k].state = "detached", ![k].removals = @ + 1,
                    ![k].removedAt = now,
                    ![k].events = Append(@, "easycss:toast-hidden")]
    ELSE ts

\* Page code, or the click listener of a [data-toast-trigger], calls
\* showToast(config); without a container showToast returns at once.
ShowToast(config) ==
    /\ Quiet
    /\ toastOps < MaxToastOps
    /\ toastOps' = toastOps + 1
    /\ \E k \in Toasts :
          /\ toasts[k].state = "none"
          /\ \A j \in 1..(k - 1) : toasts[j].state # "none"
          /\ LET w == IF container THEN showToast(ToastWorld, k, config, clock)
                      ELSE ToastWorld
             IN  /\ toasts' = w.toasts
                 /\ timers' = w.timers
                 /\ nextTimer' = w.nextTimer
    /\ UNCHANGED <<coreVars, prefVars, debVars, tabVars, dropVars, modalVars,
                   clock, container, stale,
                   keyVars, accVars, schemeVars>>

\* The user clicks the close button of a toast that is in the document.
ClickClose(k) ==
    /\ Quiet
    /\ toastOps < MaxToastOps
    /\ toasts[k].state = "attached"
    /\ toastOps' = toastOps + 1
    /\ LET w == hideToast([ToastWorld EXCEPT !.toasts[k].closeClicks = @ + 1], k, clock)
       IN  /\ toasts' = w.toasts
           /\ timers' = w.timers
           /\ nextTimer' = w.nextTimer
    /\ UNCHANGED <<coreVars, prefVars, debVars, tabVars, dropVars, modalVars,
                   clock, container, stale,
                   keyVars, accVars, schemeVars>>

\* The auto-dismiss timer of a toast fires: hideToast(toast).
FireDismiss ==
    /\ Quiet
    /\ \E t \in timers :
          /\ IsNextTimer(t)
          /\ t.op = "hideToast"
          /\ LET w == hideToast([ToastWorld EXCEPT !.timers = clearTimeout(@, t.id)],
                                t.arg, clock)
             IN  /\ toasts' = w.toasts
                 /\ timers' = w.timers
                 /\ nextTimer' = w.nextTimer
          /\ stale' = IF toasts[t.arg].state = "detached"
                      THEN stale \cup {t.arg} ELSE stale
    /\ UNCHANGED <<coreVars, prefVars, debVars, tabVars, dropVars, modalVars,
                   clock, container, toastOps,
                   keyVars, accVars, schemeVars>>

\* A removal timer set by hideToast fires.
FireRemove ==
    /\ Quiet
    /\ \E t \in timers :
          /\ IsNextTimer(t)
          /\ t.op = "remove"
          /\ toasts' = remove(toasts, t.arg, clock)
          /\ timers' = clearTimeout(timers, t.id)
          /\ stale' = IF toasts[t.arg].state = "detached"
                      THEN stale \cup {t.arg} ELSE stale
    /\ UNCHANGED <<coreVars, prefVars, debVars, tabVars, dropVars, modalVars,
                   clock, nextTimer, container, toastOps,
                   keyVars, accVars, schemeVars>>

\* ------------------------------------------------------------------ debounce

\* setTimeout(() => { this.handleResize(); }, 250)
ResizeWait == 250

\* The debounced functions: the resize listener initPerformanceOptimizations
\* adds to window, and one that page code made with
\* EasyCSSEnhanced.debounce(func, wait).
Debouncers == {"resize", "util"}

\* The wait page code passes to debounce().
Waits == {-50, 0, 100}

\* The arguments page code calls the debounced function with; the resize
\* listener passes nothing on.
Args == {"x", "y"}

NoArgs == "-"

NoRun == [at |-> 0, args |-> NoArgs, callAt |-> 0, callArgs |-> NoArgs]

\* A debounced function that has not been called: its wait, its timeout
\* variable, and what has been seen of it: calls, bursts of calls (a burst starts
\* with a call made while no run is pending), runs of the wrapped function,
\* the last call and the last run.
NoDebounced(wait) ==
    [wait |-> wait, timeout |-> 0, n |-> 0, bursts |-> 0, runs |-> 0, emits |-> 0,
     lastCall |-> 0, lastArgs |-> NoArgs, ran |-> NoRun]

\* The timers that will run the wrapped function of d.
Later(tms, d) == {t \in tms : t.op = "later" /\ t.arg[1] = d}

\* A debounce that sets its timer without clearing the one before.
debounceNoClear(tms, handle, id, now, d, args, wait) ==
    setTimeout(tms, id, now, "later", <<d, args>>, wait)

\* clearTimeout(timeout); timeout = setTimeout(later, wait): the timers after a
\* call of the debounced function d with args, handle being its timeout
\* variable and id the handle of the new timer.
debounce(tms, handle, id, now, d, args, wait) ==
    setTimeout(clearTimeout(tms, handle), id, now, "later", <<d, args>>, wait)

\* What a call of the debounced function leaves in its record.
Called(r, tms, d, id, now, args) ==
    [r EXCEPT !.timeout = id, !.n = @ + 1,
              !.bursts = IF Later(tms, d) = {} THEN @ + 1 ELSE @,
              !.lastCall = now, !.lastArgs = args]

\* later(): the wrapped function runs with the arguments of the call that set
\* the timer.
Ran(r, now, args) ==
    [r EXCEPT !.runs = @ + 1,
              !.ran = [at |-> now, args |-> args, callAt |-> r.lastCall,
                       callArgs |-> r.lastArgs]]

\* handleResize(): active dropdowns are repositioned and easycss:resize is
\* emitted.
handleResize(r) == [r EXCEPT !.emits = @ + 1]

\* The window fires a resize event: the listener of initPerformanceOptimizations.
Resize ==
    /\ Quiet
    /\ calls < MaxCalls
    /\ calls' = calls + 1
    /\ timers' = debounce(timers, debounced["resize"].timeout, nextTimer, clock,
                          "resize", NoArgs, ResizeWait)
    /\ nextTimer' = nextTimer + 1
    /\ debounced' = [debounced EXCEPT
                        !["resize"] = Called(@, timers, "resize", nextTimer, clock, NoArgs)]
    /\ UNCHANGED <<coreVars, prefVars, toastVars, tabVars, dropVars, modalVars, clock,
                   keyVars, accVars, schemeVars>>

\* Page code calls the function debounce(func, wait) returned.
CallDebounced(args) ==
    /\ Quiet
    /\ calls < MaxCalls
    /\ calls' = calls + 1
    /\ timers' = debounce(timers, debounced["util"].timeout, nextTimer, clock,
                          "util", args, debounced["util"].wait)
    /\ nextTimer' = nextTimer + 1
    /\ debounced' = [debounced EXCEPT
                        !["util"] = Called(@, timers, "util", nextTimer, clock, args)]
    /\ UNCHANGED <<coreVars, prefVars, toastVars, tabVars, dropVars, modalVars, clock,
                   keyVars, accVars, schemeVars>>

\* The timer of the resize listener fires: handleResize().
FireResize ==
    /\ Quiet
    /\ \E t \in timers :
          /\ IsNextTimer(t)
          /\ t.op = "later"
          /\ t.arg[1] = "resize"
          /\ timers' = clearTimeout(timers, t.id)
          /\ debounced' = [debounced EXCEPT
                              !["resize"] = handleResize(Ran(@, clock, t.arg[2]))]
    /\ UNCHANGED <<coreVars, prefVars, toastVars, tabVars, dropVars, modalVars, clock,
                   nextTimer, calls,
                   keyVars, accVars, schemeVars>>

\* The timer of the debounced function fires: later() clears the timeout
\* variable's timer and calls func(...args).
FireLater ==
    /\ Quiet
    /\ \E t \in timers :
          /\ IsNextTimer(t)
          /\ t.op = "later"
          /\ t.arg[1] = "util"
          /\ timers' = clearTimeout(clearTimeout(timers, t.id), debounced["util"].timeout)
          /\ debounced' = [debounced EXCEPT !["util"] = Ran(@, clock, t.arg[2])]
    /\ UNCHANGED <<coreVars, prefVars, toastVars, tabVars, dropVars, modalVars, clock,
                   nextTimer, calls,
                   keyVars, accVars, schemeVars>>

\* ------------------------------------------------------------------ tabs

\* The values of data-tab-trigger of the triggers of the [data-tabs] group, and
\* of data-tab-panel of its panels, in document order.  One trigger has no
\* panel, one panel has no trigger, and the last trigger repeats the value of
\* the first, which nothing in initTabs rules out.
TabTriggers == <<"home", "about", "lone", "home">>

TabPanels == <<"home", "about", "orphan">>

\* The targetId values page code passes to switchTab.
TargetIds == {"home", "about", "lone", "orphan", "nope"}

\* Positions in the two lists, as forEach counts them from 0.
TabIndexes == 0..(Len(TabTriggers) - 1)

PanelIndexes == 0..(Len(TabPanels) - 1)

\* An attribute the markup does not give.
Unset == "unset"

\* tabGroup.querySelector('[data-tab-trigger="targetId"]'): the position of the
\* first element of the list carrying the value, -1 for null.
QuerySelector(list, targetId) ==
    LET hits == {k \in 0..(Len(list) - 1) : list[k + 1] = targetId}
    IN  IF hits = {} THEN -1 ELSE CHOOSE k \in hits : \A j \in hits : k <= j

\* The group as the markup gives it, with trigger and panel k active.
TabMarkup(k) ==
    [trigActive |-> {k}, panelActive |-> {k},
     selected |-> [j \in TabIndexes |-> Unset],
     tabindex |-> [j \in TabIndexes |-> Unset],
     hidden |-> [j \in PanelIndexes |-> Unset],
     events |-> <<>>,
     last |-> [targetId |-> "", activeIndex |-> -1]]

\* switchTab(tabGroup, targetId, activeIndex): the active class is taken from
\* every trigger and panel; then, if the group has a trigger and a panel for
\* targetId, those two get it, aria-selected and tabindex are set from
\* activeIndex, aria-hidden from the panels' classes, and easycss:tab-changed
\* is emitted.
switchTab(t, targetId, activeIndex) ==
    LET trigger == QuerySelector(TabTriggers, targetId)
        panel == QuerySelector(TabPanels, targetId)
        cleared == [t EXCEPT !.trigActive = {}, !.panelActive = {},
                             !.last = [targetId |-> targetId,
                                       activeIndex |-> activeIndex]]
    IN  IF trigger # -1 /\ panel # -1
        THEN [cleared EXCEPT
                 !.trigActive = {trigger},
                 !.panelActive = {panel},
                 !.selected = [j \in TabIndexes |->
                                  IF j = activeIndex THEN "true" ELSE "false"],
                 !.tabindex = [j \in TabIndexes |->
                                  IF j = activeIndex THEN "0" ELSE "-1"],
                 !.hidden = [j \in PanelIndexes |->
                                  IF j = panel THEN "false" ELSE "true"],
                 !.events = Append(@, [targetId |-> targetId,
                                       activeIndex |-> activeIndex])]
        ELSE cleared

\* The user clicks the trigger at position index: the click listener of initTabs.
ClickTab(index) ==
    /\ Quiet
    /\ tabOps < MaxTabOps
    /\ tabOps' = tabOps + 1
    /\ tabs' = switchTab(tabs, TabTriggers[index + 1], index)
    /\ UNCHANGED <<coreVars, timeVars, toastVars, prefVars, debVars, dropVars,
                   modalVars,
                   keyVars, accVars, schemeVars>>

\* Page code calls easyCSSEnhanced.switchTab(tabGroup, targetId, index).
ApiSwitchTab(targetId, index) ==
    /\ Quiet
    /\ tabOps < MaxTabOps
    /\ tabOps' = tabOps + 1
    /\ tabs' = switchTab(tabs, targetId, index)
    /\ UNCHANGED <<coreVars, timeVars, toastVars, prefVars, debVars, dropVars,
                   modalVars,
                   keyVars, accVars, schemeVars>>

\* ------------------------------------------------------------------ dropdowns

DropdownOpened == "easycss:dropdown-opened"

DropdownClosed == "easycss:dropdown-closed"

\* What the dropdown methods work on: the dropdowns that have the active class
\* and the events emitted.
DropWorld == [active |-> dropActive, events |-> dropEvents]

\* openDropdown(dropdown)
openDropdown(w, d) ==
    [active |-> w.active \cup {d},
     events |-> Append(w.events, [name |-> DropdownOpened, dropdown |-> d])]

\* closeDropdown(dropdown)
closeDropdown(w, d) ==
    [active |-> w.active \ {d},
     events |-> Append(w.events, [name |-> DropdownClosed, dropdown |-> d])]

\* elems.forEach(d => { if (keep(d)) this.closeDropdown(d) }), from element k on,
\* for the elements of elems that are in the set closing.
RECURSIVE CloseEach(_, _, _, _)
CloseEach(w, elems, k, closing) ==
    IF k > Len(elems)
    THEN w
    ELSE CloseEach(IF elems[k] \in closing THEN closeDropdown(w, elems[k]) ELSE w,
                   elems, k + 1, closing)

\* A toggleDropdown that leaves the other dropdowns as they are.
toggleDropdownAlone(w, d) ==
    IF d \in w.active THEN closeDropdown(w, d) ELSE openDropdown(w, d)

\* toggleDropdown(dropdown): every other dropdown that has the active class is
\* closed, in document order; then the dropdown is closed if it was active when
\* the call started and opened otherwise.
toggleDropdown(w, d) ==
    LET others == CloseEach(w, Dropdowns, 1, w.active \ {d})
    IN  IF d \in w.active THEN closeDropdown(others, d) ELSE openDropdown(others, d)

\* What a click leaves in dropOps.
Clicked(op, d) == [n |-> dropOps.n + 1, last |-> [op |-> op, dropdown |-> d]]

\* The user clicks the trigger of dropdown d: the trigger's listener stops the
\* event there and calls toggleDropdown(dropdown).
ClickTrigger(d) ==
    /\ Quiet
    /\ dropOps.n < MaxDropOps
    /\ dropOps' = Clicked("trigger", d)
    /\ LET w == toggleDropdown(DropWorld, d)
       IN  dropActive' = w.active /\ dropEvents' = w.events
    /\ UNCHANGED <<coreVars, timeVars, toastVars, prefVars, debVars, tabVars,
                   modalVars,
                   keyVars, accVars, schemeVars>>

\* The user clicks inside dropdown d but not on its trigger: the click reaches
\* document, where the listener of every other dropdown calls closeDropdown.
ClickMenu(d) ==
    /\ Quiet
    /\ dropOps.n < MaxDropOps
    /\ dropOps' = Clicked("menu", d)
    /\ LET w == CloseEach(DropWorld, Dropdowns, 1, Range(Dropdowns) \ {d})
       IN  dropActive' = w.active /\ dropEvents' = w.events
    /\ UNCHANGED <<coreVars, timeVars, toastVars, prefVars, debVars, tabVars,
                   modalVars,
                   keyVars, accVars, schemeVars>>

\* The user clicks outside every dropdown: the document listener of each
\* dropdown calls closeDropdown, in the order initDropdowns added them.
ClickOutside ==
    /\ Quiet
    /\ dropOps.n < MaxDropOps
    /\ dropOps' = Clicked("outside", "-")
    /\ LET w == CloseEach(DropWorld, Dropdowns, 1, Range(Dropdowns))
       IN  dropActive' = w.active /\ dropEvents' = w.events
    /\ UNCHANGED <<coreVars, timeVars, toastVars, prefVars, debVars, tabVars,
                   modalVars,
                   keyVars, accVars, schemeVars>>

\* The user presses Escape with the focus inside dropdown d: the keydown
\* listener of the dropdown runs handleDropdownKeyboard, whose Escape case
\* calls closeDropdown(dropdown) and focuses the trigger.
EscapeKey(d) ==
    /\ Quiet
    /\ dropOps.n < MaxDropOps
    /\ dropOps' = Clicked("escape", d)
    /\ LET w == closeDropdown(DropWorld, d)
       IN  dropActive' = w.active /\ dropEvents' = w.events
    /\ UNCHANGED <<coreVars, timeVars, toastVars, prefVars, debVars, tabVars,
                   modalVars,
                   keyVars, accVars, schemeVars>>

\* ------------------------------------------------------------------ dropdown keys

\* The keys handleDropdownKeyboard moves the focus on.
NavKeys == {"ArrowDown", "ArrowUp", "Home", "End"}

\* dropdown.querySelectorAll('.dropdown-item:not(:disabled)') of a dropdown with
\* n enabled items: the items, named by their place in the document.
Items(n) == [i \in 1..n |-> i]

\* The element of the dropdown that has the focus when it is not on an item.
Trigger == 0

\* Array.from(items).findIndex(item => item === document.activeElement)
findIndex(items, activeElement) ==
    IF activeElement \in Range(items)
    THEN (CHOOSE i \in 1..Len(items) : items[i] = activeElement) - 1
    ELSE -1

\* The index whose item each key's case focuses: nextIndex, prevIndex, 0 and
\* items.length - 1.
KeyIndex(key, currentIndex, length) ==
    CASE key = "ArrowDown" -> IF currentIndex < length - 1 THEN currentIndex + 1 ELSE 0
      [] key = "ArrowUp" -> IF currentIndex > 0 THEN currentIndex - 1 ELSE length - 1
      [] key = "Home" -> 0
      [] key = "End" -> length - 1

\* No key pressed yet.
NoKey == [key |-> "-", currentIndex |-> -1, index |-> -1, threw |-> FALSE]

\* handleDropdownKeyboard(e, dropdown) for a key of NavKeys: items[index].focus()
\* moves the focus to the item at the index; if the list has no such index,
\* items[index] is undefined and the call throws a TypeError out of the
\* listener, the focus staying where it was.
handleDropdownKeyboard(k, key) ==
    LET items == Items(k.length)
        currentIndex == findIndex(items, k.activeElement)
        index == KeyIndex(key, currentIndex, Len(items))
        defined == index \in 0..(Len(items) - 1)
    IN  [k EXCEPT !.activeElement = IF defined THEN items[index + 1] ELSE @,
                  !.presses = @ + 1,
                  !.last = [key |-> key, currentIndex |-> currentIndex,
                            index |-> index, threw |-> ~defined]]

\* The user presses a key of NavKeys with the focus inside the dropdown: the
\* dropdown's keydown listener runs handleDropdownKeyboard.
PressKey(key) ==
    /\ Quiet
    /\ keys.presses < MaxKeyPresses
    /\ keys' = handleDropdownKeyboard(keys, key)
    /\ UNCHANGED <<coreVars, timeVars, toastVars, prefVars, debVars, tabVars,
                   dropVars, modalVars, accVars, schemeVars>>

\* ------------------------------------------------------------------ accordion

\* The items of the accordion that have an .accordion-icon element.
WithIcon == {"a1"}

\* The accordion once initAccordions has bound its items, those of the set
\* active having the active class in the markup: aria-expanded is set from the
\* class, aria-hidden and the icon's text are left as the markup has them.
AccordionMarkup(active) ==
    [active |-> active,
     expanded |-> [a \in Range(AccordionItems) |->
                      IF a \in active THEN "true" ELSE "false"],
     hidden |-> [a \in Range(AccordionItems) |-> Unset],
     icon |-> [a \in WithIcon |-> Unset],
     events |-> <<>>,
     toggles |-> <<>>]

\* A toggleAccordionItem whose event carries the state the item had.
toggleAccordionItemStale(acc, item) ==
    LET isActive == item \in acc.active
    IN  [acc EXCEPT
            !.active = IF isActive THEN @ \ {item} ELSE @ \cup {item},
            !.icon = [a \in WithIcon |->
                         IF a = item THEN (IF isActive THEN "+" ELSE "-") ELSE @[a]],
            !.expanded[item] = IF isActive THEN "false" ELSE "true",
            !.hidden[item] = IF isActive THEN "true" ELSE "false",
            !.events = Append(@, [item |-> item, isActive |-> isActive]),
            !.toggles = Append(@, [item |-> item, isActive |-> isActive])]

\* toggleAccordionItem(item, icon, trigger, content): the item loses or gets
\* the active class, its icon, if it has one, gets "+" or the minus sign, the
\* trigger's aria-expanded and the content's aria-hidden are set, and
\* easycss:accordion-toggled is emitted with isActive: !isActive.  toggles keeps
\* the item and the isActive constant of every call.
toggleAccordionItem(acc, item) ==
    LET isActive == item \in acc.active
    IN  [acc EXCEPT
            !.active = IF isActive THEN @ \ {item} ELSE @ \cup {item},
            !.icon = [a \in WithIcon |->
                         IF a = item THEN (IF isActive THEN "+" ELSE "-") ELSE @[a]],
            !.expanded[item] = IF isActive THEN "false" ELSE "true",
            !.hidden[item] = IF isActive THEN "true" ELSE "false",
            !.events = Append(@, [item |-> item, isActive |-> ~isActive]),
            !.toggles = Append(@, [item |-> item, isActive |-> isActive])]

\* The user clicks the trigger of an accordion item: the click listener of
\* initAccordions calls toggleAccordionItem.
ClickAccordion(item) ==
    /\ Quiet
    /\ Len(accordion.toggles) < MaxToggles
    /\ accordion' = toggleAccordionItem(accordion, item)
    /\ UNCHANGED <<coreVars, timeVars, toastVars, prefVars, debVars, tabVars,
                   dropVars, modalVars, keyVars, schemeVars>>

\* ------------------------------------------------------------------ system colour scheme

\* e.matches ? 'dark' : 'light'
Preference(matches) == IF matches THEN "dark" ELSE "light"

\* !localStorage.getItem('easycss-theme'): nothing stored, or the empty string.
NothingStored(stored) == stored \in {NoTheme, ""}

\* The system colour scheme changes: the media query's change listener, which
\* initTheme added for the script's instance, calls setTheme with the new
\* preference if the storage holds no theme, and does nothing otherwise.
SystemChange ==
    /\ Quiet
    /\ inst[1] = "ready"
    /\ env.matchMedia = "modern"
    /\ scheme.changes < MaxSchemeChanges
    /\ scheme' = [scheme EXCEPT !.matches = ~@, !.changes = @ + 1]
    /\ IF NothingStored(storage)
       THEN SetTheme(1, Preference(~scheme.matches))
       ELSE UNCHANGED <<theme, docTheme, storage, dispatch, emitCount, emitted>>
    /\ UNCHANGED <<listeners, cancelled, pending, readyState, env, shape, inst,
                   bindings, touched, stepsDone, actions, clickRuns, timeVars,
                   toastVars, prefVars, debVars, tabVars, dropVars, modalVars,
                   keyVars, accVars>>

\* ------------------------------------------------------------------ modals

\* The [data-modal] elements of the document, by the value of data-modal; each
\* holds a close button, so it has a focusable element.
Modals == <<"m1", "m2">>

\* The modalId values openModal is called with: data-modal-trigger attributes
\* and arguments of window.showModal.
ModalIds == {"m1", "m2", "nope"}

\* What openModal and closeModal work on.
ModalWorld ==
    [active |-> modalActive, overflow |-> overflow, traps |-> traps,
     closedSubs |-> closedSubs]

\* trapFocus(container, focusableElements): a new handleTabKey closure is added
\* to the container's keydown listeners, and a new removeListener closure, which
\* removes that handleTabKey from the container, is subscribed to
\* easycss:modal-closed.
trapFocus(w, m) ==
    LET handleTabKey == Len(w.closedSubs) + 1
    IN  [w EXCEPT !.traps[m] = @ \cup {handleTabKey},
                  !.closedSubs = on(@, [container |-> m, handleTabKey |-> handleTabKey])]

\* openModal(modalId): nothing without a [data-modal="modalId"]; else the modal
\* gets the active class, body scrolling is locked, the first focusable element
\* is focused, the focus trap is installed and easycss:modal-opened is emitted.
openModal(w, modalId) ==
    IF modalId \notin Range(Modals)
    THEN w
    ELSE trapFocus([w EXCEPT !.active = @ \cup {modalId}, !.overflow = "hidden"],
                   modalId)

\* emit('easycss:modal-closed'): the removeListener closures subscribed by
\* trapFocus run in the order of their subscription, from the k-th on; each
\* removes its handleTabKey from its container.
RECURSIVE RunRemoveListeners(_, _)
RunRemoveListeners(w, k) ==
    IF k > Len(w.closedSubs)
    THEN w
    ELSE LET r == w.closedSubs[k]
         IN  RunRemoveListeners([w EXCEPT !.traps[r.container] = @ \ {r.handleTabKey}],
                                k + 1)

\* closeModal(modal): the active class goes, body scrolling is unlocked and
\* easycss:modal-closed is emitted.
closeModal(w, m) ==
    RunRemoveListeners([w EXCEPT !.active = @ \ {m}, !.overflow = ""], 1)

\* document's keydown listeners, one per modal, from the k-th modal on: on
\* Escape each closes its modal if it has the active class.
RECURSIVE EscapeEach(_, _)
EscapeEach(w, k) ==
    IF k > Len(Modals)
    THEN w
    ELSE EscapeEach(IF Modals[k] \in w.active THEN closeModal(w, Modals[k]) ELSE w,
                    k + 1)

\* The modal state after a call.
ModalStep(w) ==
    /\ modalOps < MaxModalOps
    /\ modalOps' = modalOps + 1
    /\ modalActive' = w.active
    /\ overflow' = w.overflow
    /\ traps' = w.traps
    /\ closedSubs' = w.closedSubs
    /\ UNCHANGED <<coreVars, timeVars, toastVars, prefVars, debVars, tabVars,
                   dropVars,
                   keyVars, accVars, schemeVars>>

\* The user clicks a [data-modal-trigger], or page code calls
\* window.showModal(modalId).
OpenModal(modalId) ==
    /\ Quiet
    /\ ModalStep(openModal(ModalWorld, modalId))

\* The user clicks a [data-modal-close] button or the backdrop of an open modal.
ClickModalClose(m) ==
    /\ Quiet
    /\ m \in modalActive
    /\ ModalStep(closeModal(ModalWorld, m))

\* Page code calls window.hideModal(modal) for a modal that is not open.
HideModal(m) ==
    /\ Quiet
    /\ m \notin modalActive
    /\ ModalStep(closeModal(ModalWorld, m))

\* The user presses Escape.
PressEscape ==
    /\ Quiet
    /\ ModalStep(EscapeEach(ModalWorld, 1))

\* ------------------------------------------------------------------ theme preference

\* The themes page code passes to setTheme: the two the stylesheet knows, one of
\* the page's own, and the empty string.
ThemeArgs == {"light", "dark", "sepia", ""}

\* Page code calls window.setTheme(t): setTheme(t) on the script's instance.
PageSetTheme(t) ==
    /\ Quiet
    /\ callsHere < MaxThemeCalls
    /\ inst[1] \in {"deferred", "ready"}
    /\ SetTheme(1, t)
    /\ lastSet' = t
    /\ callsHere' = callsHere + 1
    /\ UNCHANGED <<listeners, cancelled, pending, readyState, env, shape, inst,
                   bindings, touched, stepsDone, actions, clickRuns, timeVars,
                   toastVars, loads, debVars, tabVars, dropVars, modalVars,
                   keyVars, accVars, schemeVars>>

\* Page code calls window.toggleTheme(): toggleTheme() on the script's instance.
PageToggleTheme ==
    /\ Quiet
    /\ callsHere < MaxThemeCalls
    /\ inst[1] \in {"deferred", "ready"}
    /\ SetTheme(1, Toggled(theme[1]))
    /\ lastSet' = Toggled(theme[1])
    /\ callsHere' = callsHere + 1
    /\ UNCHANGED <<listeners, cancelled, pending, readyState, env, shape, inst,
                   bindings, touched, stepsDone, actions, clickRuns, timeVars,
                   toastVars, loads, debVars, tabVars, dropVars, modalVars,
                   keyVars, accVars, schemeVars>>

\* The user goes to another page of the site: a new document, on which the
\* script has not run yet; localStorage stays.
Reload ==
    /\ Quiet
    /\ loads < MaxLoads
    /\ loads' = loads + 1
    /\ callsHere' = 0
    /\ readyState' \in {"loading", "interactive"}
    /\ listeners' = [n \in Names |-> <<>>]
    /\ cancelled' = [n \in Names |-> {}]
    /\ dispatch' = NoDispatch
    /\ inst' = [i \in Instances |-> "none"]
    /\ theme' = [i \in Instances |-> "light"]
    /\ docTheme' = NoTheme
    /\ bindings' = [e \in Elems |-> <<>>]
    /\ touched' = {}
    /\ stepsDone' = [i \in Instances |-> <<>>]
    /\ emitted' = [i \in Instances |-> <<>>]
    /\ UNCHANGED <<emitCount, pending, env, shape, storage, actions, clickRuns,
                   timeVars, toastVars, lastSet, debVars, tabVars, dropVars,
                   modalVars,
                   keyVars, accVars, schemeVars>>

\* ------------------------------------------------------------------ specifications

\* No widget has been used and no timer is set.
NoTimers ==
    /\ clock = 0
    /\ timers = {}
    /\ nextTimer = 1

NoToasts ==
    /\ container = FALSE
    /\ toasts = [k \in Toasts |-> NoToast]
    /\ toastOps = 0
    /\ stale = {}

NoThemeCalls ==
    /\ lastSet = NoTheme
    /\ callsHere = 0
    /\ loads = 0

NoDebounce ==
    /\ debounced = [d \in Debouncers |-> NoDebounced(ResizeWait)]
    /\ calls = 0

NoTabs ==
    /\ tabs = TabMarkup(0)
    /\ tabOps = 0

NoClick == [n |-> 0, last |-> [op |-> "-", dropdown |-> "-"]]

NoDropdowns ==
    /\ dropActive = {}
    /\ dropEvents = <<>>
    /\ dropOps = NoClick

NoModals ==
    /\ modalActive = {}
    /\ overflow = ""
    /\ traps = [m \in Range(Modals) |-> {}]
    /\ closedSubs = <<>>
    /\ modalOps = 0

\* A dropdown with two enabled items, the focus on its trigger, no key pressed.
NoKeys == keys = [length |-> 2, activeElement |-> Trigger, presses |-> 0, last |-> NoKey]

\* An accordion with no active item and no click on it.
NoAccordion == accordion = AccordionMarkup({})

\* A light system colour scheme that has not changed; stored is what
\* localStorage held when the page was opened.
NoScheme == scheme = [matches |-> FALSE, changes |-> 0, stored |-> NoTheme]

NoWidgets ==
    /\ NoTimers
    /\ NoToasts
    /\ NoThemeCalls
    /\ NoDebounce
    /\ NoTabs
    /\ NoDropdowns
    /\ NoModals
    /\ NoKeys
    /\ NoAccordion
    /\ NoScheme


NoDocument ==
    /\ pending = <<>>
    /\ theme = [i \in Instances |-> "light"]
    /\ bindings = [e \in Elems |-> <<>>]
    /\ touched = {}
    /\ stepsDone = [i \in Instances |-> <<>>]
    /\ emitted = [i \in Instances |-> <<>>]
    /\ actions = 0
    /\ clickRuns = 0

InitBusVars ==
    /\ listeners = [n \in Names |-> <<>>]
    /\ dispatch = NoDispatch
    /\ emitCount = 0
    /\ cancelled = [n \in Names |-> {}]

\* The bus alone: the script has run in a document that is still loading, so the
\* instance page code calls on, off and emit on exists and its init pass is
\* deferred.
InitBus ==
    /\ InitBusVars
    /\ NoDocument
    /\ NoWidgets
    /\ readyState = "loading"
    /\ env = [matchMedia |-> "modern", io |-> TRUE]
    /\ shape = [e \in Elems |-> "ok"]
    /\ inst = [i \in Instances |-> IF i = 1 THEN "deferred" ELSE "none"]
    /\ docTheme = NoTheme
    /\ storage = NoTheme

NextBus ==
    \/ \E n \in Names : \E h \in HandlersOf(n) : On(n, h)
    \/ \E n \in Names : \E h \in HandlersOf(n) : Off(n, h)
    \/ \E n \in Names : \E data \in Payloads : Emit(n, data)
    \/ \E n \in Names : \E b \in Behaviours(n) : Invoke(b)

SpecBus == InitBus /\ [][NextBus]_vars

\* The documents in which at most k elements are not well-formed.
RECURSIVE Documents(_)
Documents(k) ==
    IF k = 0
    THEN {[e \in Elems |-> "ok"]}
    ELSE LET fewer == Documents(k - 1)
         IN  fewer \cup {[d EXCEPT ![e] = sh] :
                            d \in fewer, <<e, sh>> \in {x \in Elems \X Shapes : x[2] \in ShapesOf(x[1])}}

\* Activation: the document as the server sent it, before the script runs.
InitDom ==
    /\ InitBusVars
    /\ NoDocument
    /\ NoWidgets
    /\ readyState \in {"loading", "interactive"}
    /\ env \in [matchMedia : MatchMedia, io : BOOLEAN]
    /\ env.io \/ env.matchMedia = "absent"
    /\ shape \in Documents(MaxFaults)
    /\ inst = [i \in Instances |-> "none"]
    /\ docTheme = NoTheme
    /\ storage \in {NoTheme, "dark"}

NextDom ==
    \/ \E i \in Instances : Construct(i)
    \/ DOMContentLoaded
    \/ RunCall
    \/ \E e \in Range(Toggles) : ClickToggle(e)
    \/ \E i \in Instances : \E t \in Themes : ApiSetTheme(i, t)

SpecInit == InitDom /\ [][NextDom]_vars

\* The state after the script's instance has completed its init pass over a
\* well-formed document in a current browser, with no page subscriber.
Activated ==
    /\ InitBusVars
    /\ NoDocument
    /\ readyState = "interactive"
    /\ env = [matchMedia |-> "modern", io |-> TRUE]
    /\ shape = [e \in Elems |-> "ok"]
    /\ inst = [i \in Instances |-> IF i = 1 THEN "ready" ELSE "none"]
    /\ docTheme = "light"
    /\ storage = NoTheme

\* Toasts: initToasts has run, so the document has a toast container unless
\* page code took it out again.
InitToast ==
    /\ Activated
    /\ NoTimers
    /\ NoThemeCalls
    /\ NoDebounce
    /\ NoTabs
    /\ NoDropdowns
    /\ NoModals
    /\ NoKeys
    /\ NoAccordion
    /\ NoScheme
    /\ container \in BOOLEAN
    /\ toasts = [k \in Toasts |-> NoToast]
    /\ toastOps = 0
    /\ stale = {}

NextToast ==
    \/ \E config \in Configs : ShowToast(config)
    \/ \E k \in Toasts : ClickClose(k)
    \/ FireDismiss
    \/ FireRemove
    \/ Elapse
    \/ Sleep

\* The theme preference: the first page of a visit, before the script runs, over
\* a localStorage that holds no theme or one stored by an earlier visit.
InitTheme ==
    /\ InitBusVars
    /\ NoDocument
    /\ NoWidgets
    /\ readyState \in {"loading", "interactive"}
    /\ env = [matchMedia |-> "modern", io |-> TRUE]
    /\ shape = [e \in Elems |-> "ok"]
    /\ inst = [i \in Instances |-> "none"]
    /\ docTheme = NoTheme
    /\ storage \in {NoTheme, "dark"}

NextTheme ==
    \/ Construct(1)
    \/ DOMContentLoaded
    \/ RunCall
    \/ \E t \in ThemeArgs : PageSetTheme(t)
    \/ PageToggleTheme
    \/ Reload

SpecTheme == InitTheme /\ [][NextTheme]_vars

\* Resize handling and debounce(): initPerformanceOptimizations has added the
\* resize listener, and page code holds a function made by debounce(func, wait).
InitResize ==
    /\ Activated
    /\ NoTimers
    /\ NoToasts
    /\ NoThemeCalls
    /\ NoTabs
    /\ NoDropdowns
    /\ NoModals
    /\ NoKeys
    /\ NoAccordion
    /\ NoScheme
    /\ calls = 0
    /\ \E w \in Waits :
          debounced = [d \in Debouncers |->
                          NoDebounced(IF d = "resize" THEN ResizeWait ELSE w)]

NextResize ==
    \/ Resize
    \/ \E args \in Args : CallDebounced(args)
    \/ FireResize
    \/ FireLater
    \/ Elapse
    \/ Sleep

SpecResize == InitResize /\ [][NextResize]_vars

\* The event loop runs a timer whose time has come, and time does not stop
\* before a timer that is set.
SpecResizeLive ==
    SpecResize /\ WF_vars(FireResize) /\ WF_vars(FireLater) /\ WF_vars(Sleep)

\* Tabs: initTabs has added the click listeners; the markup has the first or the
\* second tab active.
InitTabs ==
    /\ Activated
    /\ NoTimers
    /\ NoToasts
    /\ NoThemeCalls
    /\ NoDebounce
    /\ NoDropdowns
    /\ NoModals
    /\ NoKeys
    /\ NoAccordion
    /\ NoScheme
    /\ tabOps = 0
    /\ \E k \in {0, 1} : tabs = TabMarkup(k)

NextTabs ==
    \/ \E index \in TabIndexes : ClickTab(index)
    \/ \E targetId \in TargetIds : \E index \in TabIndexes : ApiSwitchTab(targetId, index)

SpecTabs == InitTabs /\ [][NextTabs]_vars

\* Dropdowns: initDropdowns has bound both dropdowns; the markup has none of
\* them, or one, active.
InitDrop ==
    /\ Activated
    /\ NoTimers
    /\ NoToasts
    /\ NoThemeCalls
    /\ NoDebounce
    /\ NoTabs
    /\ NoModals
    /\ NoKeys
    /\ NoAccordion
    /\ NoScheme
    /\ dropActive \in {{}} \cup {{d} : d \in Range(Dropdowns)}
    /\ dropEvents = <<>>
    /\ dropOps = NoClick

NextDrop ==
    \/ \E d \in Range(Dropdowns) : ClickTrigger(d)
    \/ \E d \in Range(Dropdowns) : ClickMenu(d)
    \/ ClickOutside
    \/ \E d \in Range(Dropdowns) : EscapeKey(d)

SpecDrop == InitDrop /\ [][NextDrop]_vars

\* Dropdown keys: a dropdown with up to MaxItems enabled items, the focus on
\* its trigger or on one of the items.
InitKeys ==
    /\ Activated
    /\ NoTimers
    /\ NoToasts
    /\ NoThemeCalls
    /\ NoDebounce
    /\ NoTabs
    /\ NoDropdowns
    /\ NoModals
    /\ NoAccordion
    /\ NoScheme
    /\ \E n \in 0..MaxItems : \E el \in {Trigger} \cup 1..n :
          keys = [length |-> n, activeElement |-> el, presses |-> 0, last |-> NoKey]

NextKeys == \E key \in NavKeys : PressKey(key)

SpecKeys == InitKeys /\ [][NextKeys]_vars

\* Accordion: initAccordions has bound both items; the markup has any of them
\* active.
InitAccordion ==
    /\ Activated
    /\ NoTimers
    /\ NoToasts
    /\ NoThemeCalls
    /\ NoDebounce
    /\ NoTabs
    /\ NoDropdowns
    /\ NoModals
    /\ NoKeys
    /\ NoScheme
    /\ \E active \in SUBSET Range(AccordionItems) : accordion = AccordionMarkup(active)

NextAccordion == \E item \in Range(AccordionItems) : ClickAccordion(item)

SpecAccordion == InitAccordion /\ [][NextAccordion]_vars

\* System colour scheme: the page is opened with nothing or a theme stored and
\* the system scheme light or dark; the script's instance is constructed and
\* makes its init pass; page code sets and toggles the theme; the system scheme
\* changes.
InitScheme ==
    /\ InitBusVars
    /\ NoDocument
    /\ NoTimers
    /\ NoToasts
    /\ NoThemeCalls
    /\ NoDebounce
    /\ NoTabs
    /\ NoDropdowns
    /\ NoModals
    /\ NoKeys
    /\ NoAccordion
    /\ readyState \in {"loading", "interactive"}
    /\ env = [matchMedia |-> "modern", io |-> TRUE]
    /\ shape = [e \in Elems |-> "ok"]
    /\ inst = [i \in Instances |-> "none"]
    /\ docTheme = NoTheme
    /\ storage \in {NoTheme, "dark"}
    /\ \E matches \in BOOLEAN :
          scheme = [matches |-> matches, changes |-> 0, stored |-> storage]

NextScheme ==
    \/ Construct(1)
    \/ DOMContentLoaded
    \/ RunCall
    \/ \E t \in ThemeArgs : PageSetTheme(t)
    \/ PageToggleTheme
    \/ SystemChange

SpecScheme == InitScheme /\ [][NextScheme]_vars

\* Modals: initModals has added the trigger, close, backdrop and Escape
\* listeners; no modal is open.
InitModal ==
    /\ Activated
    /\ NoTimers
    /\ NoToasts
    /\ NoThemeCalls
    /\ NoDebounce
    /\ NoTabs
    /\ NoDropdowns
    /\ NoModals
    /\ NoKeys
    /\ NoAccordion
    /\ NoScheme

NextModal ==
    \/ \E modalId \in ModalIds : OpenModal(modalId)
    \/ \E m \in Range(Modals) : ClickModalClose(m)
    \/ \E m \in Range(Modals) : HideModal(m)
    \/ PressEscape

SpecModal == InitModal /\ [][NextModal]_vars

SpecToast == InitToast /\ [][NextToast]_vars

\* The event loop runs a timer whose time has come, and time does not stop
\* before a timer that is set.
SpecToastLive ==
    SpecToast /\ WF_vars(FireDismiss) /\ WF_vars(FireRemove) /\ WF_vars(Sleep)

\* ------------------------------------------------------------------ the bus: claims

\* An emit has returned and its CustomEvent is the last one dispatched.
Returned == ~dispatch.active /\ dispatch.name # ""

\* The callbacks of s, in the order of s, that are in the set keep.
Restrict(s, keep) == SelectSeq(s, LAMBDA x : x \in keep)

\* C2 as stated: when emit returns, exactly the callbacks subscribed when it
\* started have been invoked, in the order of their subscription.
C2_AllSubscribedInvoked ==
    Returned => dispatch.invoked = dispatch.atStart

\* C2, amended.  When emit returns, the callbacks invoked are callbacks that were
\* subscribed when the emit started, each once and in the order of subscription
\* (so none that was subscribed during the dispatch); and a callback subscribed
\* at the start was left out only if off() removed it during the dispatch or if a
\* callback before it called stopImmediatePropagation().
C2_SnapshotDelivery ==
    Returned =>
        LET inv == dispatch.invoked
            start == dispatch.atStart
        IN  /\ ~dispatch.raised
            /\ Range(inv) \subseteq Range(start)
            /\ \A h \in dispatch.added : h \in Range(inv) => h \in Range(start)
            /\ inv = Restrict(start, Range(inv))
            /\ \A h \in Range(start) \ Range(inv) :
                  \/ h \in dispatch.removed
                  \/ /\ dispatch.stopped
                     /\ inv # <<>>
                     /\ Pos(start, h) > Pos(start, inv[Len(inv)])

\* C2 witness: an emit returned after one of its callbacks subscribed another
\* callback, and the new subscriber was not invoked for that event.
C2_Witness ==
    /\ Returned
    /\ dispatch.name = XChanged
    /\ dispatch.atStart = <<"A", "B">>
    /\ dispatch.added = {"C"}
    /\ dispatch.invoked = <<"A", "B">>
    /\ listeners[XChanged] = <<"A", "B", "C">>

\* C3.  A callback whose last on/off call was off is not on the listener list and
\* is never the callback a dispatch invokes next; off for a callback that is not
\* subscribed leaves the list as it is, a second off changes nothing, and off
\* takes nothing but that callback out of the list, keeping the others' order.
C3_OffCancels ==
    \A n \in Names : \A h \in HandlersOf(n) :
        LET l == listeners[n]
        IN  /\ h \in cancelled[n] => h \notin Range(l)
            /\ (dispatch.active /\ dispatch.name = n /\ h \in cancelled[n])
                   => IterList(dispatch, listeners)[dispatch.idx] # h
            /\ h \notin Range(l) => off(l, h) = l
            /\ off(off(l, h), h) = off(l, h)
            /\ off(l, h) = Restrict(l, Range(l) \ {h})

\* C3 witness: B was unsubscribed, A and C are still subscribed, and an emit of
\* the name has returned with A and C invoked.
C3_Witness ==
    /\ Returned
    /\ dispatch.name = XChanged
    /\ "B" \in cancelled[XChanged]
    /\ dispatch.atStart = <<"A", "C">>
    /\ dispatch.invoked = <<"A", "C">>

C5_PayloadKept ==
    dispatch.name # "" =>
        /\ \A k \in DOMAIN dispatch.payload : dispatch.detail[k] = dispatch.payload[k]
        /\ dispatch.detail["timestamp"] = dispatch.ts

\* C5, amended.  The detail's keys are the payload's keys and timestamp; every
\* payload key other than timestamp keeps the payload's value; timestamp is the
\* clock value read when emit was called, whatever the payload held under it.
C5_DetailMerge ==
    dispatch.name # "" =>
        /\ DOMAIN dispatch.detail = DOMAIN dispatch.payload \cup {"timestamp"}
        /\ \A k \in DOMAIN dispatch.payload \ {"timestamp"} :
               dispatch.detail[k] = dispatch.payload[k]
        /\ dispatch.detail["timestamp"] = dispatch.ts
        /\ dispatch.ts >= ClockStart

\* C5 witness: a payload with its own timestamp key was emitted and delivered.
C5_Witness ==
    /\ Returned
    /\ dispatch.payload = [v |-> 1, timestamp |-> 2]
    /\ dispatch.invoked # <<>>

\* C6.  No step outside an emit invokes a callback: once an emit has returned,
\* the callbacks invoked for its event stay what they were until the next emit
\* starts, whatever is subscribed or unsubscribed in between.
C6_NoReplay ==
    [][(Idle /\ emitCount' = emitCount) => dispatch'.invoked = dispatch.invoked]_vars

\* C6 witness: an emit returned with R not subscribed, and R is subscribed now
\* without having been invoked.
C6_Witness ==
    /\ Returned
    /\ dispatch.name = ReadyEvent
    /\ dispatch.atStart = <<>>
    /\ listeners[ReadyEvent] = <<"R">>
    /\ dispatch.invoked = <<>>

\* ------------------------------------------------------------------ activation: claims

\* The init pass of instance i is over: it emitted ready or was left by an exception.
PassOver(i) == inst[i] \in {"ready", "aborted"}

StepIndex(name) == CHOOSE k \in 1..Len(StepNames) : StepNames[k] = name

\* The pass of instance i got as far as calling the step.
Reached(i, name) == PassOver(i) /\ Len(stepsDone[i]) >= StepIndex(name) - 1

Completed(i, name) == name \in Range(stepsDone[i])

\* The init steps that throw in this document and browser.
ThrowingSteps(i) ==
    LET p == [bindings |-> bindings, touched |-> touched, docTheme |-> docTheme]
    IN  {name \in Range(StepNames) : Step(name, p, i).threw}

\* C1 as stated: once a pass has completed, every well-formed element matching
\* [data-theme-toggle] or [data-dropdown] has had its listeners attached exactly
\* once, however many passes have run, and a click on the theme toggle runs the
\* toggle action once.
C1_BoundOnce ==
    (Quiet /\ \E i \in Instances : inst[i] = "ready") =>
        /\ \A e \in Range(Toggles) \cup Range(Dropdowns) :
               shape[e] = "ok" => Len(bindings[e]) = 1
        /\ clickRuns <= 1

\* C7 as stated: when initDropdowns or initTooltips has been called in a pass,
\* every well-formed element it matches is bound by that pass and the initializer
\* returns, whether or not binding another matched element threw.
C7_BindIsolated ==
    \A i \in Instances :
        /\ Reached(i, "initDropdowns") =>
              /\ Completed(i, "initDropdowns")
              /\ \A e \in Range(Dropdowns) :
                     shape[e] = "ok" => i \in Range(bindings[e])
        /\ Reached(i, "initTooltips") =>
              /\ Completed(i, "initTooltips")
              /\ \A e \in Range(Tooltips) :
                     shape[e] = "ok" => i \in Range(bindings[e])

\* C8 as stated: when a pass is over, every init step that did not itself throw
\* has been executed and the instance has emitted easycss:ready.
C8_InitSurvivesThrow ==
    \A i \in Instances :
        PassOver(i) =>
            /\ Range(StepNames) \ Range(stepsDone[i]) \subseteq ThrowingSteps(i)
            /\ ReadyEvent \in Range(emitted[i])

\* C9.  A [data-dropdown] or .accordion-item without its trigger or without its
\* menu / content never gets a listener and is never written to; and in a pass
\* that called initDropdowns (initAccordions), unless binding one of the matched
\* elements throws, the initializer returns and every well-formed element it
\* matches is bound by that pass.
C9_IncompleteSkipped ==
    /\ \A e \in Range(Dropdowns) \cup Range(AccordionItems) :
           shape[e] \in {"noTrigger", "noBody"} =>
               bindings[e] = <<>> /\ e \notin touched
    /\ \A i \in Instances :
        /\ (Reached(i, "initDropdowns")
                /\ \A e \in Range(Dropdowns) : shape[e] # "throws") =>
              /\ Completed(i, "initDropdowns")
              /\ \A e \in Range(Dropdowns) :
                     shape[e] = "ok" => i \in Range(bindings[e])
        /\ Reached(i, "initAccordions") =>
              /\ Completed(i, "initAccordions")
              /\ \A e \in Range(AccordionItems) :
                     shape[e] = "ok" => i \in Range(bindings[e])

\* C9 witness: a pass completed over a document whose first dropdown has no
\* trigger; the second dropdown is bound.
C9_Witness ==
    /\ inst[1] = "ready"
    /\ shape["d1"] = "noTrigger"
    /\ bindings["d1"] = <<>>
    /\ bindings["d2"] = <<1>>

\* C10 as stated: no pass starts while the document is loading; when the pass of
\* an instance is over, all fifteen steps have completed and easycss:ready is the
\* first event that instance emitted and was emitted exactly once; before that
\* the instance has not emitted it.
C10_SingleInitPass ==
    \A i \in Instances :
        /\ readyState = "loading" => inst[i] \in {"none", "deferred"}
        /\ PassOver(i) =>
              /\ stepsDone[i] = StepNames
              /\ emitted[i] # <<>>
              /\ emitted[i][1] = ReadyEvent
              /\ Cardinality({k \in 1..Len(emitted[i]) : emitted[i][k] = ReadyEvent}) = 1
        /\ ~PassOver(i) => ReadyEvent \notin Range(emitted[i])

\* ------------------------------------------------------------------ toasts: claims

\* A timer set by showToast or hideToast for toast k.
ToastTimers(k) == {t \in timers : t.op \in {"hideToast", "remove"} /\ t.arg = k}

\* C11 as stated: once a toast has been removed from its container, no timer
\* set for it by showToast or hideToast is still pending, and no timer callback
\* has run on it since it was removed.
C11_TimersCancelled ==
    \A k \in Toasts :
        toasts[k].state = "detached" => ToastTimers(k) = {} /\ k \notin stale

\* C19.  A toast is removed from its container at most once, and the events
\* emitted for it are none, easycss:toast-shown, or easycss:toast-shown followed
\* by one easycss:toast-hidden, the latter exactly when it has been removed;
\* whatever close clicks and timers came before.
C19_RemovedOnce ==
    \A k \in Toasts :
        /\ toasts[k].removals <= 1
        /\ toasts[k].removals = 1 <=> toasts[k].state = "detached"
        /\ toasts[k].events =
              CASE toasts[k].state = "none" -> <<>>
                [] toasts[k].state = "attached" -> <<"easycss:toast-shown">>
                [] OTHER -> <<"easycss:toast-shown", "easycss:toast-hidden">>

\* C19 witness: a toast with the default duration was closed by a click, the
\* removal timer of the click, the auto-dismiss timer and the removal timer set
\* by the auto-dismiss have all fired, the last two after the toast was
\* removed, and it was removed and reported hidden once.
C19_Witness ==
    /\ toasts[1].closeClicks = 1
    /\ toasts[1].config = NoData
    /\ 1 \in stale
    /\ ToastTimers(1) = {}
    /\ clock >= DefaultDuration + HideDelay
    /\ toasts[1].events = <<"easycss:toast-shown", "easycss:toast-hidden">>

\* config.persistent is false or left out, and config.duration is positive or
\* left out.
C20_Auto(config) ==
    /\ "persistent" \in DOMAIN config => config.persistent = FALSE
    /\ "duration" \in DOMAIN config => config.duration > 0

\* The delay after which a toast is dismissed by itself.
C20_Delay(config) ==
    (IF "duration" \in DOMAIN config THEN config.duration ELSE 5000) + 300

\* C20.  A toast that is persistent or has a duration of 0 or less stays in the
\* container as long as its close button has not been clicked; a toast removed
\* without a close click was not persistent, had a positive duration and was
\* removed no earlier than duration + 300 ms after showToast; and every toast
\* that is not persistent and has a positive duration is eventually removed.
C20_AutoDismiss ==
    /\ [](\A k \in Toasts :
            LET t == toasts[k]
            IN  /\ (t.state # "none" /\ ~C20_Auto(t.config) /\ t.closeClicks = 0)
                       => t.state = "attached"
                /\ (t.state = "detached" /\ t.closeClicks = 0)
                       => C20_Auto(t.config) /\ t.removedAt >= t.at + C20_Delay(t.config))
    /\ \A k \in Toasts :
          (toasts[k].state = "attached" /\ C20_Auto(toasts[k].config))
              ~> (toasts[k].state = "detached")

\* C20 witness: a toast shown with the default config was removed, without a
\* click, 5300 ms after it was shown, while a persistent one is still there.
C20_Witness ==
    /\ toasts[1].state = "detached"
    /\ toasts[1].config = NoData
    /\ toasts[1].closeClicks = 0
    /\ toasts[1].removedAt = toasts[1].at + 5300
    /\ toasts[2].state = "attached"
    /\ toasts[2].config = [duration |-> 200, persistent |-> TRUE]
    /\ clock >= toasts[2].at + 5300

\* ------------------------------------------------------------------ theme preference: claims

\* C12 as stated: once setTheme or toggleTheme has been called, the instance's
\* theme, data-theme and the stored value are the last theme set, and an
\* instance constructed afterwards, on this page or the next, has that theme.
C12_ThemeSurvives ==
    lastSet # NoTheme =>
        /\ callsHere > 0 =>
              theme[1] = lastSet /\ docTheme = lastSet /\ storage = lastSet
        /\ inst[1] # "none" => theme[1] = lastSet

\* C12, amended.  Once setTheme or toggleTheme has been called on a page, the
\* instance's theme, data-theme and the stored value are the last theme set.  On
\* a later page the stored value is still the last theme set; the instance
\* constructed there has that theme if it is not the empty string and 'light'
\* if it is, and its init pass writes its theme to data-theme.
C12_ThemeSurvivesNonEmpty ==
    lastSet # NoTheme =>
        /\ storage = lastSet
        /\ callsHere > 0 => theme[1] = lastSet /\ docTheme = lastSet
        /\ (inst[1] # "none" /\ lastSet # "") => theme[1] = lastSet
        /\ (inst[1] # "none" /\ lastSet = "" /\ callsHere = 0) => theme[1] = "light"
        /\ (inst[1] = "ready" /\ Quiet) => docTheme = theme[1]

\* C12 witness: 'sepia' was set on the first page, and the instance of the next
\* page has completed its init pass with that theme, with no call on that page.
C12_Witness ==
    /\ loads = 1
    /\ callsHere = 0
    /\ lastSet = "sepia"
    /\ inst[1] = "ready"
    /\ theme[1] = "sepia"
    /\ docTheme = "sepia"

\* ------------------------------------------------------------------ debounce: claims

\* What C13 asks of one debounced function whose wait is w: at most one run is
\* pending; every burst of calls has had its one run or has it pending; the
\* pending run is due w ms after the last call and holds that call's arguments;
\* and the last run came no earlier than w ms after the call before it, with
\* that call's arguments.
C13_Trailing(d, w) ==
    LET r == debounced[d]
        pend == {t \in timers : t.op = "later" /\ t.arg[1] = d}
    IN  /\ Cardinality(pend) <= 1
        /\ r.bursts = r.runs + Cardinality(pend)
        /\ \A t \in pend : t.due = r.lastCall + w /\ t.arg[2] = r.lastArgs
        /\ r.runs > 0 => r.ran.at >= r.ran.callAt + w /\ r.ran.args = r.ran.callArgs

\* C13.  The resize listener runs handleResize, which emits easycss:resize once,
\* only when 250 ms have passed since the last resize event and once per burst
\* of resize events; a function made by debounce(func, wait) runs func the same
\* way after wait ms (0 for a negative wait), with the arguments of the last
\* call; and once the calls have stopped, every burst gets its run.
C13_Debounced ==
    /\ [](/\ C13_Trailing("resize", 250)
          /\ debounced["resize"].emits = debounced["resize"].runs
          /\ C13_Trailing("util", IF debounced["util"].wait < 0 THEN 0
                                  ELSE debounced["util"].wait))
    /\ <>[](\A d \in Debouncers : debounced[d].bursts = debounced[d].runs)

\* C13 witness: two resize events 100 ms apart gave one handleResize, 250 ms
\* after the second; the debounced function, called with x and then y before
\* its wait of 100 ms was over, has run once, with y.
C13_Witness ==
    /\ debounced["resize"].n = 2
    /\ debounced["resize"].runs = 1
    /\ debounced["resize"].emits = 1
    /\ debounced["resize"].ran.at = debounced["resize"].ran.callAt + 250
    /\ debounced["resize"].ran.callAt = 100
    /\ debounced["util"].wait = 100
    /\ debounced["util"].n = 2
    /\ debounced["util"].runs = 1
    /\ debounced["util"].ran.args = "y"
    /\ timers = {}

\* ------------------------------------------------------------------ tabs: claims

\* C14 as stated: a switchTab call whose targetId has no trigger or no panel in
\* the group changes nothing: the active classes and the ARIA attributes stay
\* and no easycss:tab-changed is emitted.
C14_SwitchNoOp ==
    [][(/\ tabOps' = tabOps + 1
        /\ \/ tabs'.last.targetId \notin Range(TabTriggers)
           \/ tabs'.last.targetId \notin Range(TabPanels))
          => /\ tabs'.trigActive = tabs.trigActive
             /\ tabs'.panelActive = tabs.panelActive
             /\ tabs'.selected = tabs.selected
             /\ tabs'.tabindex = tabs.tabindex
             /\ tabs'.hidden = tabs.hidden
             /\ tabs'.events = tabs.events]_vars

\* The trigger at a position of the group carries the value and so does a panel.
C21_Clicked(index, targetId) ==
    /\ index \in TabIndexes
    /\ TabTriggers[index + 1] = targetId
    /\ targetId \in Range(TabPanels)

\* C21 as stated: after a click on a trigger whose target id has a panel in the
\* group, exactly one trigger and one panel are active, both carry the clicked
\* target id, aria-selected is true and tabindex "0" on the active trigger
\* only, aria-hidden is false on the active panel only, and the switch emitted
\* one easycss:tab-changed.
C21_ClickSelects ==
    [][(/\ tabOps' = tabOps + 1
        /\ C21_Clicked(tabs'.last.activeIndex, tabs'.last.targetId))
          => /\ \E j \in TabIndexes :
                  /\ tabs'.trigActive = {j}
                  /\ TabTriggers[j + 1] = tabs'.last.targetId
                  /\ \A i \in TabIndexes :
                        /\ tabs'.selected[i] = "true" <=> i = j
                        /\ tabs'.tabindex[i] = "0" <=> i = j
             /\ \E j \in PanelIndexes :
                  /\ tabs'.panelActive = {j}
                  /\ TabPanels[j + 1] = tabs'.last.targetId
                  /\ \A i \in PanelIndexes :
                        tabs'.hidden[i] = "false" <=> i = j
             /\ Len(tabs'.events) = Len(tabs.events) + 1]_vars

\* ------------------------------------------------------------------ dropdowns: claims

\* C15.  A click on the trigger of dropdown d, which is one toggleDropdown(d)
\* call, leaves d active exactly if it was not active before, and no other
\* dropdown active; and after every click, on a trigger, in a menu or outside,
\* at most one dropdown is active.
C15_ToggleExclusive ==
    [][/\ Cardinality(dropActive') <= 1
       /\ \A d \in Range(Dropdowns) :
             (dropOps'.n = dropOps.n + 1 /\ dropOps'.last = [op |-> "trigger", dropdown |-> d])
                 => /\ d \in dropActive' <=> d \notin dropActive
                    /\ dropActive' \subseteq {d}]_vars

\* C15 witness: d1 was opened by a click on its trigger, and a click on the
\* trigger of d2 has closed d1 and opened d2.
C15_Witness ==
    /\ dropOps.last = [op |-> "trigger", dropdown |-> "d2"]
    /\ dropActive = {"d2"}
    /\ dropEvents = << [name |-> DropdownOpened, dropdown |-> "d1"],
                       [name |-> DropdownClosed, dropdown |-> "d1"],
                       [name |-> DropdownOpened, dropdown |-> "d2"] >>

\* The positions of dropEvents that hold an event of dropdown d.
C22_EventsOf(evs, d) == {i \in 1..Len(evs) : evs[i].dropdown = d}

\* C22 as stated: a step emits easycss:dropdown-closed for a dropdown only if
\* the dropdown was active when the step began or the step opened it before;
\* so the opened and closed events of each dropdown alternate, whatever trigger
\* clicks, menu clicks, outside clicks and Escape presses there were.
C22_EventsAlternate ==
    /\ [][\A d \in Range(Dropdowns) :
             LET new == {i \in C22_EventsOf(dropEvents', d) : i > Len(dropEvents)}
             IN  \A i \in new :
                    dropEvents'[i].name = DropdownClosed
                        => \/ d \in dropActive
                           \/ \E j \in new : j < i /\ dropEvents'[j].name = DropdownOpened]_vars
    /\ [](\A d \in Range(Dropdowns) :
             \A i, j \in C22_EventsOf(dropEvents, d) :
                (i < j /\ \A k \in C22_EventsOf(dropEvents, d) : ~(i < k /\ k < j))
                    => dropEvents[i].name # dropEvents[j].name)

\* ------------------------------------------------------------------ dropdown keys: claims

\* C23 as stated: whatever the number of enabled items, zero included, and
\* wherever the focus is, ArrowDown, ArrowUp, Home and End compute an index
\* inside the item list, ArrowDown wrapping from the last item to the first and
\* ArrowUp from the first to the last, the item at that index gets the focus
\* and the handler completes without error.
C23_KeyTargetsItem ==
    keys.presses > 0 =>
        /\ ~keys.last.threw
        /\ keys.last.index \in 0..(keys.length - 1)
        /\ keys.activeElement = Items(keys.length)[keys.last.index + 1]
        /\ (keys.last.key = "ArrowDown" /\ keys.last.currentIndex = keys.length - 1)
               => keys.last.index = 0
        /\ (keys.last.key = "ArrowUp" /\ keys.last.currentIndex = 0)
               => keys.last.index = keys.length - 1

\* ------------------------------------------------------------------ accordion: claims

\* The items toggleAccordionItem has been called on.
C24_Toggled == {accordion.toggles[n].item : n \in 1..Len(accordion.toggles)}

\* C24.  After any toggles of an accordion item, the trigger's aria-expanded is
\* "true" exactly when the item has the active class and, once the item has
\* been toggled, the content's aria-hidden is the opposite; a toggle flips the
\* class of its item and leaves every other item as it was; it emits one
\* easycss:accordion-toggled whose isActive is the item's new state; and after
\* two toggles in a row of one item the item has the class exactly if it had
\* it before the two.
C24_ToggleFlips ==
    /\ [](\A a \in Range(AccordionItems) :
             /\ accordion.expanded[a] = (IF a \in accordion.active THEN "true" ELSE "false")
             /\ a \in C24_Toggled =>
                   accordion.hidden[a] = (IF a \in accordion.active THEN "false" ELSE "true"))
    /\ [][Len(accordion'.toggles) = Len(accordion.toggles) + 1 =>
             LET item == accordion'.toggles[Len(accordion'.toggles)].item
             IN  /\ item \in accordion'.active <=> item \notin accordion.active
                 /\ \A a \in Range(AccordionItems) \ {item} :
                       /\ a \in accordion'.active <=> a \in accordion.active
                       /\ accordion'.expanded[a] = accordion.expanded[a]
                       /\ accordion'.hidden[a] = accordion.hidden[a]
                 /\ \A a \in WithIcon \ {item} : accordion'.icon[a] = accordion.icon[a]
                 /\ accordion'.events =
                       Append(accordion.events,
                              [item |-> item, isActive |-> item \in accordion'.active])]_vars
    /\ [](LET n == Len(accordion.toggles)
          IN  (n >= 2 /\ accordion.toggles[n].item = accordion.toggles[n - 1].item)
                  => (accordion.toggles[n].item \in accordion.active
                         <=> accordion.toggles[n - 1].isActive))

\* C24 witness: with no item active in the markup, a1 was toggled twice and
\* then a2 once: a1 is closed again, a2 is open, and three events were emitted.
C24_Witness ==
    /\ accordion.active = {"a2"}
    /\ accordion.expanded = [a \in Range(AccordionItems) |->
                                IF a = "a2" THEN "true" ELSE "false"]
    /\ accordion.hidden = [a \in Range(AccordionItems) |->
                              IF a = "a2" THEN "false" ELSE "true"]
    /\ accordion.events = << [item |-> "a1", isActive |-> TRUE],
                             [item |-> "a1", isActive |-> FALSE],
                             [item |-> "a2", isActive |-> TRUE] >>

\* ------------------------------------------------------------------ system colour scheme: claims

\* C25 as stated: with nothing stored when the page was opened and no
\* setTheme or toggleTheme call by page code so far, after every change of the
\* system colour scheme the theme is the system preference; once page code
\* has chosen a theme, a change of the system scheme leaves the theme as it is.
C25_FollowsSystem ==
    [][scheme'.changes = scheme.changes + 1 =>
          /\ (scheme.stored = NoTheme /\ lastSet = NoTheme)
                 => theme'[1] = Preference(scheme'.matches)
          /\ lastSet # NoTheme => theme'[1] = theme[1]]_vars

\* ------------------------------------------------------------------ modals: claims

\* C16 as stated: a modal has a keydown focus-trap handler attached exactly
\* while it is open: one is there as long as the modal is active, whichever
\* other modal is closed meanwhile, and none is left once it has been closed.
C16_TrapWhileOpen ==
    \A m \in Range(Modals) : m \in modalActive <=> traps[m] # {}

\* C17 as stated: the handlers the framework has subscribed to
\* easycss:modal-closed are no more than the modals that are open.
C17_SubscriptionsBounded ==
    Len(closedSubs) <= Cardinality(modalActive)

\* C18 as stated: body scrolling is locked exactly while some modal is open.
C18_ScrollLock ==
    overflow = "hidden" <=> modalActive # {}

====
